---- MODULE Spec2Model ----
(***************************************************************************)
(* Model of src/main.py: a FastAPI service with seven GET endpoints.       *)
(*                                                                         *)
(* Numbers.  A Python float is modelled as a decimal [m, e] standing for   *)
(* m * 10^e, with the range limits of an IEEE double (a square that        *)
(* exceeds the largest double raises OverflowError, a square below the     *)
(* smallest subnormal is 0.0).  A value rounded with round(x, 2) is an     *)
(* integer number of hundredths (2422 stands for 24.22).                   *)
(*                                                                         *)
(* Exceptions are records [cls, text]; the except clauses of the handlers  *)
(* are matched in source order against the class hierarchy Bases.          *)
(***************************************************************************)
EXTENDS Integers, Sequences, FiniteSets, TLC

VARIABLES pc, env, startEnv, api_key, phase, req, API_KEY, openaiEnvAtReq,
          calls, upstream, unhandled, resp

vars == <<pc, env, startEnv, api_key, phase, req, API_KEY, openaiEnvAtReq,
          calls, upstream, unhandled, resp>>

\* Number of distinct message texts an upstream failure can carry.
MaxText == 2

TextSeq == <<"upstream text 1", "upstream text 2", "upstream text 3",
             "upstream text 4">>

Texts == {TextSeq[i] : i \in 1 .. MaxText}

----------------------------------------------------------------------------
(* Decimal floats *)

Num(m, e) == [m |-> m, e |-> e]

RECURSIVE Pow10(_)
Pow10(n) == IF n = 0 THEN 1 ELSE 10 * Pow10(n - 1)

RECURSIVE Digits(_)
Digits(n) == IF n < 10 THEN 1 ELSE 1 + Digits(n \div 10)

Sgn(n) == IF n < 0 THEN -1 ELSE IF n = 0 THEN 0 ELSE 1

\* Largest decimal exponent of a finite double (sys.float_info.max_10_exp).
DBL_MAX_10_EXP == 308

\* Decimal exponent below which a double is 0.0 (smallest subnormal 4.9e-324).
DBL_DENORM_10_EXP == 0 - 324

\* Sign of x - k for a float x and a small integer k >= 0.
CmpInt(x, k) ==
    IF x.m <= 0 THEN (IF x.m = 0 /\ k = 0 THEN 0 ELSE -1)
    ELSE IF x.e >= 0
         THEN (IF x.e > 8 THEN 1 ELSE Sgn(x.m * Pow10(x.e) - k))
         ELSE (IF 0 - x.e > 8 THEN (IF k = 0 THEN 1 ELSE -1)
               ELSE Sgn(x.m - k * Pow10(0 - x.e)))

\* round(n / d, 0) for n >= 0, d > 0: round half to even.
RoundDiv(n, d) ==
    LET q == n \div d
        r == n % d
    IN  IF 2 * r < d THEN q
        ELSE IF 2 * r > d THEN q + 1
        ELSE IF q % 2 = 0 THEN q ELSE q + 1

\* round(m * 10^e / d, 2) in hundredths, for m >= 0 and d > 0.
Round2(m, e, d) ==
    IF e + 2 >= 0 THEN RoundDiv(m * Pow10(e + 2), d)
    ELSE RoundDiv(m, d * Pow10(0 - (e + 2)))

Exc(cls, text) == [cls |-> cls, text |-> text]

\* x ** 2 on a float: a result [kind, val] or [kind, exc].
FloatSquare(x) ==
    LET m2 == x.m * x.m
        e2 == 2 * x.e
        mag == Digits(m2) + e2
    IN  IF x.m = 0 THEN [kind |-> "ok", val |-> Num(0, 0)]
        ELSE IF mag - 1 > DBL_MAX_10_EXP
        THEN [kind |-> "raise",
              exc |-> Exc("OverflowError", "(34, 'Numerical result out of range')")]
        ELSE IF mag <= DBL_DENORM_10_EXP
        THEN [kind |-> "ok", val |-> Num(0, 0)]
        ELSE [kind |-> "ok", val |-> Num(m2, e2)]

----------------------------------------------------------------------------
(* Results of a handler body and their translation by the framework *)

Return(body) == [kind |-> "return", body |-> body]

\* raise HTTPException(status_code=..., detail=...)
HTTPException(status, detail) ==
    [kind |-> "http", status |-> status, detail |-> detail]

Raise(exc) == [kind |-> "raise", exc |-> exc]

global_exception_handler_generic(exc) ==
    [status |-> 500, body |-> [detail |-> <<"Internal Server Error">>]]

global_exception_handler(exc) ==
    [status |-> 500, body |-> [detail |-> <<"Internal Server Error: ", exc.text>>]]

\* The response FastAPI sends for what the handler body did.
Respond(r) ==
    IF r.kind = "return" THEN [status |-> 200, body |-> r.body]
    ELSE IF r.kind = "http" THEN [status |-> r.status, body |-> [detail |-> r.detail]]
    ELSE global_exception_handler(r.exc)

NoExc == Exc("none", "")

Unhandled(r) == IF r.kind = "raise" THEN r.exc ELSE NoExc

----------------------------------------------------------------------------
(* Startup: module import *)

required_env_vars == {"OPENWEATHER_KEY", "OPENAI_API_KEY"}

\* What os.getenv can find for a variable: nothing, "" or a non-empty value.
EnvValues == {"unset", "empty", "set"}

IsNone(v) == v = "unset"

\* "not v" for what os.getenv returned: true of None and of "".
Falsy(v) == v # "set"

\* not os.getenv(var)
NotGetenv(e, var) == Falsy(e[var])

missing_vars_first_only(e) == {var \in {"OPENWEATHER_KEY"} : NotGetenv(e, var)}

missing_vars(e) == {var \in required_env_vars : NotGetenv(e, var)}

NoReq == [endpoint |-> "none", args |-> <<>>]

NoResp == [status |-> 0, body |-> [none |-> TRUE]]

NoUpstream == [kind |-> "none"]

NoEnv == [var \in required_env_vars |-> "unset"]

Init ==
    /\ pc = "boot"
    /\ env \in [required_env_vars -> EnvValues]
    /\ startEnv = NoEnv
    /\ api_key = "none"
    /\ phase = "idle"
    /\ req = NoReq
    /\ API_KEY = "none"
    /\ openaiEnvAtReq = "none"
    /\ calls = 0
    /\ upstream = NoUpstream
    /\ unhandled = NoExc
    /\ resp = NoResp

Startup ==
    /\ pc = "boot"
    /\ startEnv' = env
    /\ IF missing_vars(env) # {}
       THEN /\ pc' = "crashed"
            /\ UNCHANGED api_key
       ELSE /\ pc' = "serving"
            /\ api_key' = env["OPENAI_API_KEY"]
    /\ UNCHANGED <<env, phase, req, API_KEY, openaiEnvAtReq, calls, upstream,
                   unhandled, resp>>

\* The process environment (os.environ) changes while the service runs.
EnvChange ==
    /\ pc = "serving"
    /\ \E var \in required_env_vars, val \in EnvValues :
          /\ env[var] # val
          /\ env' = [env EXCEPT ![var] = val]
    /\ UNCHANGED <<pc, startEnv, api_key, phase, req, API_KEY, openaiEnvAtReq,
                   calls, upstream, unhandled, resp>>

\* A request is accepted when the service runs and no handler is waiting.
Accepting == pc = "serving" /\ phase # "inflight"

\* A handler that runs to its end in one step: no outbound call.
Finish(endpoint, args, r) ==
    /\ req' = [endpoint |-> endpoint, args |-> args]
    /\ openaiEnvAtReq' = "none"
    /\ phase' = "done"
    /\ calls' = 0
    /\ upstream' = NoUpstream
    /\ unhandled' = Unhandled(r)
    /\ resp' = Respond(r)
    /\ API_KEY' = "none"
    /\ UNCHANGED <<pc, env, startEnv, api_key>>

----------------------------------------------------------------------------
(* GET / *)

read_root == Return([message |-> "Hello from Dockerized FastAPI!"])

ReadRoot ==
    /\ Accepting
    /\ Finish("/", <<>>, read_root)

----------------------------------------------------------------------------
(* GET /bmi *)

Weights == {Num(0, 0), Num(0 - 70, 0), Num(70, 0), Num(705, 0 - 1)}

Heights == {Num(0, 0), Num(0 - 170, 0), Num(10, 0), Num(11, 0), Num(170, 0),
            Num(17, 0 - 1), Num(95, 0 - 1), Num(1, 0 - 200), Num(1, 200)}

bmi_convert_ge(height) ==
    IF CmpInt(height, 10) >= 0 THEN Num(height.m, height.e - 2) ELSE height

\* if height > 10: height = height / 100
bmi_convert(height) ==
    IF CmpInt(height, 10) > 0 THEN Num(height.m, height.e - 2) ELSE height

calculate_bmi(weight, height) ==
    IF CmpInt(height, 0) <= 0 \/ CmpInt(weight, 0) <= 0
    THEN HTTPException(400, <<"Weight and height must be greater than zero.">>)
    ELSE LET h  == bmi_convert(height)
             sq == FloatSquare(h)
         IN  IF sq.kind = "raise" THEN Raise(sq.exc)
             ELSE IF sq.val.m = 0
             THEN Raise(Exc("ZeroDivisionError", "float division by zero"))
             ELSE Return([bmi |-> Round2(weight.m, weight.e - sq.val.e, sq.val.m)])

CalculateBmi ==
    /\ Accepting
    /\ \E weight \in Weights, height \in Heights :
          Finish("/bmi", <<weight, height>>, calculate_bmi(weight, height))

----------------------------------------------------------------------------
(* GET /calories *)

Durations == {Num(0, 0), Num(0 - 30, 0), Num(30, 0), Num(905, 0 - 1)}

ActivityLevels == {"light", "moderate", "vigorous", "Light", ""}

met_values == [light |-> Num(35, 0 - 1), moderate |-> Num(50, 0 - 1),
               vigorous |-> Num(80, 0 - 1)]

\* met_values.get(activity_level): None is Num(0, 0), which "not met" rejects.
met_get(activity_level) ==
    IF activity_level \in DOMAIN met_values THEN met_values[activity_level]
    ELSE Num(0, 0)

calculate_calories_level_first(weight, duration, activity_level) ==
    LET met == met_get(activity_level)
    IN  IF met.m = 0
        THEN HTTPException(400,
                 <<"Invalid activity level. Choose from light, moderate, or vigorous.">>)
        ELSE IF CmpInt(duration, 0) <= 0 \/ CmpInt(weight, 0) <= 0
        THEN HTTPException(400, <<"Weight and duration must be greater than zero.">>)
        ELSE Return([calories_burned |->
                 Round2(met.m * weight.m * duration.m,
                        met.e + weight.e + duration.e, 60)])

calculate_calories(weight, duration, activity_level) ==
    IF CmpInt(duration, 0) <= 0 \/ CmpInt(weight, 0) <= 0
    THEN HTTPException(400, <<"Weight and duration must be greater than zero.">>)
    ELSE LET met == met_get(activity_level)
         IN  IF met.m = 0
             THEN HTTPException(400,
                      <<"Invalid activity level. Choose from light, moderate, or vigorous.">>)
             ELSE Return([calories_burned |->
                      Round2(met.m * weight.m * duration.m,
                             met.e + weight.e + duration.e, 60)])

CalculateCalories ==
    /\ Accepting
    /\ \E weight \in Weights, duration \in Durations, level \in ActivityLevels :
          Finish("/calories", <<weight, duration, level>>,
                 calculate_calories(weight, duration, level))

----------------------------------------------------------------------------
(* GET /hydration *)

WaterMl == {0 - 1, 0, 1999, 2000, 2001, 2999, 3000, 3001}

check_hydration_exclusive(water_ml) ==
    IF water_ml < 2000
    THEN Return([status |-> "Drink more water!",
                 advice |-> "Aim for at least 2 liters per day."])
    ELSE IF 2000 <= water_ml /\ water_ml < 3000
    THEN Return([status |-> "You're well hydrated!",
                 advice |-> "Maintain this level of hydration."])
    ELSE Return([status |-> "Too much water!", advice |-> "Avoid overhydration."])

check_hydration(water_ml) ==
    IF water_ml < 2000
    THEN Return([status |-> "Drink more water!",
                 advice |-> "Aim for at least 2 liters per day."])
    ELSE IF 2000 <= water_ml /\ water_ml <= 3000
    THEN Return([status |-> "You're well hydrated!",
                 advice |-> "Maintain this level of hydration."])
    ELSE Return([status |-> "Too much water!", advice |-> "Avoid overhydration."])

CheckHydration ==
    /\ Accepting
    /\ \E water_ml \in WaterMl :
          Finish("/hydration", <<water_ml>>, check_hydration(water_ml))

----------------------------------------------------------------------------
(* GET /sleep-score *)

Hours == {Num(0 - 1, 0), Num(0, 0), Num(59, 0 - 1), Num(6, 0), Num(7, 0),
          Num(8, 0), Num(81, 0 - 1), Num(9, 0)}

sleep_score(hours) ==
    IF CmpInt(hours, 6) < 0
    THEN Return([score |-> 50, status |-> "Too little sleep"])
    ELSE IF CmpInt(hours, 6) >= 0 /\ CmpInt(hours, 8) <= 0
    THEN Return([score |-> 90, status |-> "Healthy sleep"])
    ELSE Return([score |-> 70, status |-> "Too much sleep"])

SleepScore ==
    /\ Accepting
    /\ \E hours \in Hours : Finish("/sleep-score", <<hours>>, sleep_score(hours))

----------------------------------------------------------------------------
(* Exception classes and the except clauses *)

\* Direct base classes: builtins, requests.exceptions, openai.error, fastapi.
Bases ==
    [c \in {"Exception"} |-> {}] @@
    [c \in {"OSError", "ArithmeticError", "LookupError", "ValueError",
            "RuntimeError", "fastapi.HTTPException", "openai.OpenAIError"}
        |-> {"Exception"}] @@
    [c \in {"ZeroDivisionError", "OverflowError"} |-> {"ArithmeticError"}] @@
    [c \in {"KeyError", "IndexError"} |-> {"LookupError"}] @@
    [c \in {"json.JSONDecodeError"} |-> {"ValueError"}] @@
    [c \in {"requests.RequestException"} |-> {"OSError"}] @@
    [c \in {"requests.Timeout", "requests.ConnectionError", "requests.HTTPError",
            "requests.InvalidJSONError"} |-> {"requests.RequestException"}] @@
    [c \in {"requests.ReadTimeout"} |-> {"requests.Timeout"}] @@
    [c \in {"requests.ConnectTimeout"}
        |-> {"requests.ConnectionError", "requests.Timeout"}] @@
    [c \in {"requests.JSONDecodeError"}
        |-> {"requests.InvalidJSONError", "json.JSONDecodeError"}] @@
    [c \in {"openai.AuthenticationError", "openai.Timeout",
            "openai.APIConnectionError", "openai.RateLimitError"}
        |-> {"openai.OpenAIError"}]

\* isinstance(e, cls) for an exception of class c.
RECURSIVE IsSubclass(_, _)
IsSubclass(c, cls) == c = cls \/ \E b \in Bases[c] : IsSubclass(b, cls)

\* str(e) of an HTTPException raised inside a try block.
HTTPExceptionText(status, detail) == detail

----------------------------------------------------------------------------
(* GET /weather *)

Cities == {"Paris", "Oslo"}

\* What requests.get / raise_for_status can raise.
WeatherErrors == {"requests.ConnectTimeout", "requests.ReadTimeout",
                  "requests.ConnectionError", "requests.HTTPError"}

\* The body of a success response: unparseable, or JSON with or without the
\* keys the handler reads.
WeatherBodies ==
    {[parse |-> "error", main |-> "absent", weather |-> "absent"]} \cup
    [parse : {"ok"}, main : {"absent", "no_temp", "ok"},
     weather : {"absent", "empty", "no_description", "ok"}]

WeatherOutcomes ==
    {[kind |-> "raise", exc |-> Exc(c, t)] : c \in WeatherErrors, t \in Texts} \cup
    {[kind |-> "response", data |-> d] : d \in WeatherBodies}

\* The class response.json() raises on an unparseable body: a RequestException
\* from requests 2.27 on, a plain ValueError subclass before.
JsonErrors == {"requests.JSONDecodeError", "json.JSONDecodeError"}

\* The try block of get_weather once the call has ended.
weather_try(city, outcome, jsonError) ==
    IF outcome.kind = "raise" THEN Raise(outcome.exc)
    ELSE LET data == outcome.data
         IN  IF data.parse = "error"
             THEN Raise(Exc(jsonError, "Expecting value: line 1 column 1 (char 0)"))
             ELSE IF data.main = "absent" \/ data.weather = "absent"
             THEN Raise(Exc("fastapi.HTTPException",
                      HTTPExceptionText(500,
                          "Unexpected response format from OpenWeather API.")))
             ELSE IF data.main = "no_temp" THEN Raise(Exc("KeyError", "'temp'"))
             ELSE IF data.weather = "empty"
             THEN Raise(Exc("IndexError", "list index out of range"))
             ELSE IF data.weather = "no_description"
             THEN Raise(Exc("KeyError", "'description'"))
             ELSE Return([city |-> city, temperature |-> "temp",
                          description |-> "description"])

weather_except_transport_first(e) ==
    IF IsSubclass(e.cls, "requests.RequestException")
    THEN HTTPException(502, <<"Bad Gateway: ", e.text>>)
    ELSE IF IsSubclass(e.cls, "requests.Timeout")
    THEN HTTPException(504, <<"OpenWeather API request timed out.">>)
    ELSE HTTPException(500, <<"Internal Server Error: ", e.text>>)

\* The except clauses of get_weather, in source order.
weather_except(e) ==
    IF IsSubclass(e.cls, "requests.Timeout")
    THEN HTTPException(504, <<"OpenWeather API request timed out.">>)
    ELSE IF IsSubclass(e.cls, "requests.RequestException")
    THEN HTTPException(502, <<"Bad Gateway: ", e.text>>)
    ELSE HTTPException(500, <<"Internal Server Error: ", e.text>>)

get_weather(city, outcome, jsonError) ==
    LET r == weather_try(city, outcome, jsonError)
    IN  IF r.kind = "raise" THEN weather_except(r.exc) ELSE r

\* The exception that reached the handler's "except Exception" clause.
weather_uncaught(city, outcome, jsonError) ==
    LET r == weather_try(city, outcome, jsonError)
    IN  IF r.kind = "raise" /\ ~IsSubclass(r.exc.cls, "requests.RequestException")
        THEN r.exc ELSE NoExc

\* Lines 111-118: read the key, refuse without it, else issue the call.
GetWeatherCall ==
    /\ Accepting
    /\ \E city \in Cities :
          /\ req' = [endpoint |-> "/weather", args |-> <<city>>]
          /\ API_KEY' = env["OPENWEATHER_KEY"]
          /\ openaiEnvAtReq' = "none"
          /\ upstream' = NoUpstream
          /\ unhandled' = NoExc
          /\ IF Falsy(API_KEY')
             THEN /\ phase' = "done"
                  /\ calls' = 0
                  /\ resp' = Respond(HTTPException(500,
                                 <<"Missing OpenWeather API key.">>))
             ELSE /\ phase' = "inflight"
                  /\ calls' = 1
                  /\ resp' = NoResp
    /\ UNCHANGED <<pc, env, startEnv, api_key>>

GetWeatherReturnRetry ==
    /\ pc = "serving"
    /\ phase = "inflight"
    /\ req.endpoint = "/weather"
    /\ \E outcome \in WeatherOutcomes, jsonError \in JsonErrors :
          /\ upstream' = outcome
          /\ unhandled' = weather_uncaught(req.args[1], outcome, jsonError)
          /\ resp' = Respond(get_weather(req.args[1], outcome, jsonError))
          /\ calls' = IF outcome.kind = "raise" THEN calls + 1 ELSE calls
    /\ phase' = "done"
    /\ UNCHANGED <<pc, env, startEnv, api_key, req, API_KEY, openaiEnvAtReq>>

\* Lines 118-137: the call ends and the handler translates its outcome.
GetWeatherReturn ==
    /\ pc = "serving"
    /\ phase = "inflight"
    /\ req.endpoint = "/weather"
    /\ \E outcome \in WeatherOutcomes, jsonError \in JsonErrors :
          /\ upstream' = outcome
          /\ unhandled' = weather_uncaught(req.args[1], outcome, jsonError)
          /\ resp' = Respond(get_weather(req.args[1], outcome, jsonError))
    /\ phase' = "done"
    /\ UNCHANGED <<pc, env, startEnv, api_key, req, API_KEY, openaiEnvAtReq, calls>>

----------------------------------------------------------------------------
(* GET /ask-openai *)

Prompts == {"hello"}

\* What openai.ChatCompletion.create can raise.
OpenaiErrors == {"openai.AuthenticationError", "openai.Timeout",
                 "openai.APIConnectionError", "openai.RateLimitError",
                 "RuntimeError"}

\* The returned object: its "choices" and the "message" of the first choice.
OpenaiBodies ==
    [choices : {"absent", "empty"}, message : {"absent"}] \cup
    [choices : {"ok"}, message : {"absent", "empty", "no_content", "ok"}]

OpenaiOutcomes ==
    {[kind |-> "raise", exc |-> Exc(c, t)] : c \in OpenaiErrors, t \in Texts} \cup
    {[kind |-> "response", data |-> d] : d \in OpenaiBodies}

\* The try block of ask_openai once the call has ended.
openai_try(outcome) ==
    IF outcome.kind = "raise" THEN Raise(outcome.exc)
    ELSE LET data == outcome.data
         IN  IF data.choices # "ok" \/ data.message \in {"absent", "empty"}
             THEN Raise(Exc("fastapi.HTTPException",
                      HTTPExceptionText(500,
                          "Unexpected response format from OpenAI API.")))
             ELSE IF data.message = "no_content"
             THEN Raise(Exc("KeyError", "'content'"))
             ELSE Return([response |-> "content"])

openai_except_provider_first(e) ==
    IF IsSubclass(e.cls, "openai.OpenAIError")
    THEN HTTPException(502, <<"Bad Gateway: ", e.text>>)
    ELSE IF IsSubclass(e.cls, "openai.AuthenticationError")
    THEN HTTPException(401, <<"Invalid OpenAI API key.">>)
    ELSE HTTPException(500, <<"Internal Server Error: ", e.text>>)

\* The except clauses of ask_openai, in source order.
openai_except(e) ==
    IF IsSubclass(e.cls, "openai.AuthenticationError")
    THEN HTTPException(401, <<"Invalid OpenAI API key.">>)
    ELSE IF IsSubclass(e.cls, "openai.OpenAIError")
    THEN HTTPException(502, <<"Bad Gateway: ", e.text>>)
    ELSE HTTPException(500, <<"Internal Server Error: ", e.text>>)

ask_openai(outcome) ==
    LET r == openai_try(outcome)
    IN  IF r.kind = "raise" THEN openai_except(r.exc) ELSE r

\* The exception that reached the handler's "except Exception" clause.
openai_uncaught(outcome) ==
    LET r == openai_try(outcome)
    IN  IF r.kind = "raise" /\ ~IsSubclass(r.exc.cls, "openai.OpenAIError")
        THEN r.exc ELSE NoExc

\* Lines 149-153: the handler issues the call with the key of line 140.
AskOpenaiCall ==
    /\ Accepting
    /\ \E request \in Prompts :
          req' = [endpoint |-> "/ask-openai", args |-> <<request>>]
    /\ openaiEnvAtReq' = env["OPENAI_API_KEY"]
    /\ upstream' = NoUpstream
    /\ unhandled' = NoExc
    /\ phase' = "inflight"
    /\ calls' = 1
    /\ resp' = NoResp
    /\ API_KEY' = "none"
    /\ UNCHANGED <<pc, env, startEnv, api_key>>

\* Lines 154-167: the call ends and the handler translates its outcome.
AskOpenaiReturn ==
    /\ pc = "serving"
    /\ phase = "inflight"
    /\ req.endpoint = "/ask-openai"
    /\ \E outcome \in OpenaiOutcomes :
          /\ upstream' = outcome
          /\ unhandled' = openai_uncaught(outcome)
          /\ resp' = Respond(ask_openai(outcome))
    /\ phase' = "done"
    /\ UNCHANGED <<pc, env, startEnv, api_key, req, API_KEY, openaiEnvAtReq, calls>>

----------------------------------------------------------------------------

Next ==
    \/ Startup
    \/ EnvChange
    \/ ReadRoot
    \/ CalculateBmi
    \/ CalculateCalories
    \/ CheckHydration
    \/ SleepScore
    \/ GetWeatherCall
    \/ GetWeatherReturn
    \/ AskOpenaiCall
    \/ AskOpenaiReturn

Spec == Init /\ [][Next]_vars

----------------------------------------------------------------------------
(* Properties *)

Done(endpoint) == phase = "done" /\ req.endpoint = endpoint

Proxies == {"/weather", "/ask-openai"}

\* The outbound call ended in a timeout.
TimedOut ==
    /\ upstream.kind = "raise"
    /\ \/ IsSubclass(upstream.exc.cls, "requests.Timeout")
       \/ upstream.exc.cls = "openai.Timeout"

\* C1 as stated: in both proxy handlers a call that ends in a timeout ends
\* the request with status 504.
C1_TimeoutIs504 ==
    (phase = "done" /\ req.endpoint \in Proxies /\ TimedOut) => resp.status = 504

\* C1 amended: a timeout of the weather call, a ConnectTimeout included,
\* ends the request with 504; a timeout of the text-completion call is a
\* provider error and ends it with 502.
C1_TimeoutStatus ==
    (phase = "done" /\ TimedOut) =>
        /\ req.endpoint = "/weather" => resp.status = 504
        /\ req.endpoint = "/ask-openai" => resp.status = 502

C1_Witness ==
    /\ Done("/weather")
    /\ upstream.kind = "raise"
    /\ upstream.exc.cls = "requests.ConnectTimeout"
    /\ resp.status = 504

\* The success body is not parseable or lacks a key the handler reads.
Malformed(data) == data.parse = "error" \/ data.main # "ok" \/ data.weather # "ok"

\* C2: a success response of the weather provider with a malformed body ends
\* the request with status 500.
C2_MalformedIs500 ==
    (Done("/weather") /\ upstream.kind = "response" /\ Malformed(upstream.data))
        => resp.status = 500

\* The status C3 gives for an upstream outcome of the text-completion call.
C3_Status(outcome) ==
    IF outcome.kind = "raise"
    THEN IF outcome.exc.cls = "openai.AuthenticationError" THEN 401
         ELSE IF outcome.exc.cls \in {"openai.Timeout", "openai.APIConnectionError",
                                      "openai.RateLimitError"} THEN 502
         ELSE 500
    ELSE IF outcome.data.choices = "ok" /\ outcome.data.message = "ok" THEN 200
         ELSE 500

\* C3: the status of /ask-openai is a function of the upstream outcome: 401
\* for an authentication failure, 502 for any other provider error, 500 for
\* a response without choices or message, 200 with {response} only for a
\* well-shaped response, and no other status.
C3_OpenaiStatus ==
    Done("/ask-openai") =>
        /\ resp.status = C3_Status(upstream)
        /\ resp.status \in {200, 401, 500, 502}
        /\ resp.status = 200 => resp.body = [response |-> "content"]

C3_Witness ==
    /\ Done("/ask-openai")
    /\ upstream.kind = "raise"
    /\ upstream.exc.cls = "openai.AuthenticationError"
    /\ resp.status = 401

\* C4 as stated: each proxy handler whose credential is absent when the
\* request arrives ends it with 500 and issues no outbound call.
C4_NoKeyNoCall ==
    /\ (req.endpoint = "/weather" /\ API_KEY \in {"unset", "empty"}) =>
          (phase = "done" /\ resp.status = 500 /\ calls = 0)
    /\ (req.endpoint = "/ask-openai" /\ openaiEnvAtReq \in {"unset", "empty"}) =>
          (phase = "done" /\ resp.status = 500 /\ calls = 0)

\* C4 amended: /weather ends a request that finds no OPENWEATHER_KEY with
\* 500 and no outbound call; /ask-openai checks nothing when the request
\* arrives and issues its call with the key read at startup.
C4_WeatherNoKeyNoCall ==
    /\ (req.endpoint = "/weather" /\ API_KEY \in {"unset", "empty"}) =>
          (phase = "done" /\ resp.status = 500 /\ calls = 0 /\ upstream = NoUpstream)
    /\ req.endpoint = "/ask-openai" => (calls = 1 /\ api_key = "set")

C4_Witness ==
    /\ Done("/weather")
    /\ API_KEY = "empty"
    /\ resp = [status |-> 500, body |-> [detail |-> <<"Missing OpenWeather API key.">>]]
    /\ calls = 0

\* C5: with a credential missing or empty at startup the process does not
\* reach the serving state and handles no request; it serves only when both
\* credentials were present.
C5_StartupGate ==
    /\ pc = "serving" => \A var \in required_env_vars : startEnv[var] = "set"
    /\ pc = "crashed" => \E var \in required_env_vars : startEnv[var] # "set"
    /\ pc # "serving" => (req = NoReq /\ phase = "idle" /\ resp = NoResp /\ calls = 0)

C5_Witness ==
    /\ pc = "crashed"
    /\ startEnv["OPENWEATHER_KEY"] = "set"
    /\ startEnv["OPENAI_API_KEY"] = "empty"

\* C6 as stated: the 500 body of a request that ends in an unhandled
\* exception does not contain the exception's text.
C6_GenericBody ==
    unhandled # NoExc =>
        /\ resp.status = 500
        /\ \A i \in DOMAIN resp.body.detail : resp.body.detail[i] # unhandled.text

\* C6 amended: the 500 body of a request that ends in an unhandled exception
\* is "Internal Server Error: " followed by the exception's text.
C6_BodyCarriesText ==
    unhandled # NoExc =>
        resp = [status |-> 500,
                body |-> [detail |-> <<"Internal Server Error: ", unhandled.text>>]]

C6_Witness ==
    /\ Done("/bmi")
    /\ unhandled = Exc("ZeroDivisionError", "float division by zero")
    /\ resp.status = 500

\* round(weight / h^2, 2) with h = height / 100 when height > 10, else height.
C7_Bmi(weight, height) ==
    LET h == IF CmpInt(height, 10) > 0 THEN Num(height.m, height.e - 2) ELSE height
    IN  Round2(weight.m, weight.e - 2 * h.e, h.m * h.m)

\* C7: /bmi answers 400 exactly when weight <= 0 or height <= 0, and
\* otherwise {bmi} with bmi = round(weight / h^2, 2), h being height / 100
\* when height > 10 and height when 0 < height <= 10.
C7_BmiTotal ==
    Done("/bmi") =>
        LET weight == req.args[1]
            height == req.args[2]
        IN  IF weight.m <= 0 \/ height.m <= 0
            THEN resp.status = 400
            ELSE /\ resp.status = 200
                 /\ resp.body = [bmi |-> C7_Bmi(weight, height)]

\* The MET table of C8.
C8_Met(level) ==
    CASE level = "light" -> Num(35, 0 - 1)
      [] level = "moderate" -> Num(50, 0 - 1)
      [] level = "vigorous" -> Num(80, 0 - 1)

C9_Hydration ==
    Done("/hydration") =>
        LET water_ml == req.args[1]
        IN  /\ resp.status = 200
            /\ resp.body \in
                 {[status |-> "Drink more water!",
                   advice |-> "Aim for at least 2 liters per day."],
                  [status |-> "You're well hydrated!",
                   advice |-> "Maintain this level of hydration."],
                  [status |-> "Too much water!", advice |-> "Avoid overhydration."]}
            /\ resp.body.status = "Drink more water!" <=> water_ml < 2000
            /\ resp.body.status = "You're well hydrated!" <=>
                  (2000 <= water_ml /\ water_ml <= 3000)
            /\ resp.body.status = "Too much water!" <=> water_ml > 3000

C9_Witness ==
    /\ Done("/hydration")
    /\ req.args[1] = 3000
    /\ resp.body.status = "You're well hydrated!"

\* C10: a request causes at most one outbound call: the proxy handlers issue
\* exactly one once they reach the call step, none when they stop before it,
\* and none more after a failure; the other handlers issue none.
C10_AtMostOneCall ==
    /\ calls \in {0, 1}
    /\ req.endpoint \notin Proxies => calls = 0
    /\ (req.endpoint \in Proxies /\ (phase = "inflight" \/ upstream # NoUpstream))
          => calls = 1
    /\ (Done("/weather") /\ upstream = NoUpstream) => calls = 0

C10_Witness ==
    /\ Done("/weather")
    /\ upstream.kind = "raise"
    /\ upstream.exc.cls = "requests.HTTPError"
    /\ resp.status = 502
    /\ calls = 1

====
